---- MODULE Spec2Model ----
(***************************************************************************)
(* A model of RangeSlider (range_slider.py): a two-headed slider whose     *)
(* heads mark an 'in' and an 'out' value inside [value_min, value_max],    *)
(* with two text entries that show the values and accept typed values.     *)
(*                                                                         *)
(* Numbers.  Python evaluates the value/position mapping in floating       *)
(* point: every operation is rounded to the nearest representable number,  *)
(* ties to even.  The model keeps that rounding and reduces the width of   *)
(* the significand from 53 bits to Precision bits, because TLC's integers  *)
(* are 32 bits wide.  A number x is held as the integer x * 2^FracBits.    *)
(* Every integer the mappings use (pixels of the bar, domain bounds, their *)
(* products) is below 2^Precision, so integer arithmetic is exact, as it   *)
(* is in Python for every integer below 2^53.                              *)
(*                                                                         *)
(* Inputs.  The host calls change_min_max with min <= max.  The variable   *)
(* watch names the scenario: which handlers are observed in ev, and which  *)
(* texts, pointer positions and codecs the scenario draws its inputs from. *)
(* Only the scenario "misconfig" also calls change_min_max with max < min. *)
(***************************************************************************)
EXTENDS Integers, Sequences, FiniteSets, TLC

\* ---------------------------------------------------------------- bounds
Precision == 5      \* bits of the significand of a float
FracBits == 8       \* smallest exponent: numbers are multiples of 2^-FracBits
Width == 39         \* constructor argument width (pixels)
MaxValue == 1       \* domain bounds are drawn from {0, MaxValue}
MaxTyped == 5       \* largest whole number a user types into an entry

\* ------------------------------------------------------- program constants
HEAD_RADIUS == 10
Height == 40

\* ------------------------------------------------------------- arithmetic
RECURSIVE Pow2(_)
Pow2(k) == IF k = 0 THEN 1 ELSE 2 * Pow2(k - 1)

One == Pow2(FracBits)

I(n) == n * One

Abs(a) == IF a < 0 THEN -a ELSE a

\* nearest integer to a/b (b > 0), ties to the even integer
RoundHalfEven(a, b) ==
    LET q == a \div b
        r == a % b
    IN  IF 2 * r > b \/ (2 * r = b /\ q % 2 = 1) THEN q + 1 ELSE q

\* 2^Precision: significands are below it
TwoP == Pow2(Precision)

\* the weight of the last bit of the significand of a/b
RECURSIVE UnitOf(_, _, _)
UnitOf(a, b, u) == IF Abs(a) < TwoP * u * b THEN u ELSE UnitOf(a, b, 2 * u)

\* the float nearest to the exact quotient a/b (in units of 2^-FracBits)
FL(a, b) == LET u == UnitOf(a, b, 1) IN u * RoundHalfEven(a, b * u)

FAdd(x, y) == FL(x + y, 1)
FSub(x, y) == FL(x - y, 1)
FMul(x, y) == FL(x * y, One)
FDiv(x, y) == IF y > 0 THEN FL(x * One, y) ELSE FL((-x) * One, -y)

Min2(a, b) == IF b < a THEN b ELSE a
Max2(a, b) == IF b > a THEN b ELSE a

\* ----------------------------------------------------------------- state
VARIABLES
    value_min, value_max,       \* the domain
    value_in, value_out,        \* the selected range
    user_moved_sliders_since_last_check,
    selected_head,              \* "none", "in", "out" or "both" (True)
    head_in, head_out,          \* centre x of the two heads on the canvas
    entry_in_var, entry_out_var,\* text of the two entries
    value_display,              \* the format function
    inverse_display,            \* the parse function, or "None"
    ev,                         \* the last handler that ran, as observed
    watch                       \* which handlers are observed

prog == <<value_min, value_max, value_in, value_out,
          user_moved_sliders_since_last_check, selected_head,
          head_in, head_out, entry_in_var, entry_out_var,
          value_display, inverse_display>>

vars == <<value_min, value_max, value_in, value_out,
          user_moved_sliders_since_last_check, selected_head,
          head_in, head_out, entry_in_var, entry_out_var,
          value_display, inverse_display, ev, watch>>

\* ------------------------------------------------------------- geometry
slider_x_start == I(HEAD_RADIUS)
slider_x_end == I(Width - HEAD_RADIUS)
slider_y == I(Height) \div 2

\* ------------------------------------------------------ the two mappings
pos_to_value(vmin, vmax, p) ==
    FAdd(vmin, FDiv(FMul(FSub(vmax, vmin), FSub(p, slider_x_start)),
                    slider_x_end - slider_x_start))

\* value_to_pos raises ZeroDivisionError when this holds
ZeroDiv(vmin, vmax) == FSub(vmax, vmin) = 0

value_to_pos(vmin, vmax, v) ==
    FAdd(slider_x_start,
         FDiv(FMul(slider_x_end - slider_x_start, FSub(v, vmin)), FSub(vmax, vmin)))

\* ------------------------------------------------------------ the codecs
\* A text is [k, n]: "dec2" is a number printed with two decimals (n is the
\* number of hundredths), "ts" a timestamp MM:SS of n seconds, "q" the text
\* "?", "junk" a text with no digits and no colon.
Txt(k, n) == [k |-> k, n |-> n]

\* int(): truncation towards zero
Trunc(v) == IF v >= 0 THEN v \div One ELSE -((-v) \div One)

\* "dec2" is the default value_display, "ts" the format of
\* timestamp_display_builder, "q" a format that maps every value to "?"
Format(fmt, v) ==
    CASE fmt = "dec2" -> Txt("dec2", RoundHalfEven(v * 100, One))
      [] fmt = "ts"   -> Txt("ts", Trunc(v))
      [] OTHER        -> Txt("q", 0)

Ok(v) == [ok |-> TRUE, v |-> v, err |-> "none"]
Raise(e) == [ok |-> FALSE, v |-> 0, err |-> e]

\* "float" is the default inverse_display, "ts" the parser of
\* timestamp_display_builder, "zero" a parser that returns 0 for every text
Parse(prs, t) ==
    CASE prs = "float" -> IF t.k = "dec2" THEN Ok(FL(t.n * One, 100))
                          ELSE Raise("ValueError")
      [] prs = "ts"    -> IF t.k = "ts" THEN Ok(I(t.n)) ELSE Raise("IndexError")
      [] OTHER         -> Ok(0)

\* ------------------------------------------------------- the last operation
\* op: the handler; head: the entry it ran for, or the head selected when it
\* started; vmin, vmax, reset, force, fmt, prs: its arguments; x, y: the
\* pointer of the event; key: the event that ran the entry handler; ret: what
\* have_sliders_moved returned; err: the exception that left it; accepted: a
\* drag that moved a head, or a commit that passed the test of line 286 and
\* ran to its end; was: the flag before a call of the host; note: the case
\* the handler met.
Quiet == [op |-> "-", head |-> "-", vmin |-> 0, vmax |-> 0,
          reset |-> FALSE, force |-> FALSE, fmt |-> "-", prs |-> "-",
          x |-> 0, y |-> 0, key |-> "-", ret |-> FALSE, err |-> "none", accepted |-> FALSE, was |-> FALSE,
          note |-> "-"]

Ev(op) == [Quiet EXCEPT !.op = op]

Watched ==
    CASE watch = "user"     -> {"clicked_move", "entry_f", "have_sliders_moved"}
      [] watch = "reconfig" -> {"change_min_max", "change_display"}
      [] watch = "pointer"  -> {"onclick", "clicked_move"}
      [] watch = "edit"     -> {"entry_f"}
      [] watch = "misconfig" -> {"change_min_max"}
      [] OTHER              -> {}

Observe(e) == ev' = IF e.op \in Watched THEN e ELSE Quiet

\* ----------------------------------------------------------- construction
DomainValues == {0, MaxValue}

Constructed ==
    /\ value_min \in {I(n) : n \in DomainValues}
    /\ value_max \in {I(n) : n \in DomainValues}
    /\ value_min <= value_max
    /\ value_in = value_min
    /\ value_out = value_max
    /\ user_moved_sliders_since_last_check = FALSE
    /\ selected_head = "none"
    /\ head_in = slider_x_start
    /\ head_out = slider_x_end
    /\ value_display = "dec2"
    /\ inverse_display = "float"
    /\ entry_in_var = Format("dec2", value_in)
    /\ entry_out_var = Format("dec2", value_out)
    /\ ev = Quiet

\* ---------------------------------------------------------- change_min_max
\* line 82 with the test of force inverted
TakesEffectInverted(vmin, vmax, force) ==
    value_min # vmin \/ value_max # vmax \/ ~force

\* line 82
TakesEffect(vmin, vmax, force) == value_min # vmin \/ value_max # vmax \/ force

\* line 102 without the upper bound
ClampInLower(v, vmin, vmax) == Max2(v, vmin)

\* line 102
ClampIn(v, vmin, vmax) == Min2(Max2(v, vmin), vmax)

\* line 103
ClampOut(v, vmin, vmax) == Max2(Min2(v, vmax), vmin)

\* line 108 left out
FlagAfterChangeKept(flag) == flag

\* line 108
FlagAfterChange(flag) == FALSE

change_min_max(vmin, vmax, reset, force) ==
    /\ Observe([Ev("change_min_max") EXCEPT
                  !.was = user_moved_sliders_since_last_check,
                  !.vmin = vmin, !.vmax = vmax, !.reset = reset, !.force = force,
                  !.note = IF value_in > vmax THEN "above" ELSE "-"])
    /\ UNCHANGED watch
    /\ IF TakesEffect(vmin, vmax, force)
       THEN /\ value_min' = vmin
            /\ value_max' = vmax
            /\ value_in' = IF reset THEN vmin ELSE ClampIn(value_in, vmin, vmax)
            /\ value_out' = IF reset THEN vmax ELSE ClampOut(value_out, vmin, vmax)
            /\ head_in' = slider_x_start
            /\ head_out' = slider_x_end
            /\ user_moved_sliders_since_last_check' =
                   FlagAfterChange(user_moved_sliders_since_last_check)
            /\ UNCHANGED <<selected_head, entry_in_var, entry_out_var,
                           value_display, inverse_display>>
       ELSE UNCHANGED prog

\* ---------------------------------------------------------- change_display
\* the round trip at one boundary: "ok", "differs", or the exception raised
RoundTrip(fmt, prs, v) ==
    LET r == Parse(prs, Format(fmt, v))
    IN  IF ~r.ok THEN r.err ELSE IF r.v # v THEN "differs" ELSE "ok"

\* lines 122-125: "keep" the parser, "disable" it, or the exception raised
Gate(fmt, prs, vmin, vmax) ==
    IF prs = "None" THEN "disable"
    ELSE LET a == RoundTrip(fmt, prs, vmin)
         IN  IF a = "differs" THEN "disable"
             ELSE IF a # "ok" THEN a
             ELSE LET b == RoundTrip(fmt, prs, vmax)
                  IN  IF b = "differs" THEN "disable"
                      ELSE IF b # "ok" THEN b ELSE "keep"

change_display(fmt, prs) ==
    LET g == Gate(fmt, prs, value_min, value_max)
        e == [Ev("change_display") EXCEPT
                  !.was = user_moved_sliders_since_last_check,
                  !.fmt = fmt, !.prs = prs]
    IN  /\ value_display' = fmt
        /\ UNCHANGED <<value_min, value_max, value_in, value_out,
                       user_moved_sliders_since_last_check, selected_head,
                       head_in, head_out, watch>>
        /\ IF g \in {"keep", "disable"}
           THEN /\ inverse_display' = IF g = "keep" THEN prs ELSE "None"
                /\ entry_in_var' = Format(fmt, value_in)
                /\ entry_out_var' = Format(fmt, value_out)
                /\ Observe(e)
           ELSE /\ inverse_display' = prs
                /\ UNCHANGED <<entry_in_var, entry_out_var>>
                /\ Observe([e EXCEPT !.err = g])

\* ------------------------------------------------------ have_sliders_moved
have_sliders_moved ==
    /\ Observe([Ev("have_sliders_moved") EXCEPT
                  !.ret = user_moved_sliders_since_last_check])
    /\ user_moved_sliders_since_last_check' = FALSE
    /\ UNCHANGED <<value_min, value_max, value_in, value_out, selected_head,
                   head_in, head_out, entry_in_var, entry_out_var,
                   value_display, inverse_display, watch>>

\* ------------------------------------------------- pointer without button
\* the box of a head is the box of its outer oval, as __move_head set it:
\* (x - r, y - r, x + r, y + r), compared in pixels
is_click_on_bbox(head_x, x, y) ==
    /\ head_x - I(HEAD_RADIUS) < x
    /\ x < head_x + I(HEAD_RADIUS)
    /\ slider_y - I(HEAD_RADIUS) < y
    /\ y < slider_y + I(HEAD_RADIUS)

\* lines 204-206 without the test of line 206
check_mouse_collision_last(x, y) ==
    LET on_in == is_click_on_bbox(head_in, x, y)
        on_out == is_click_on_bbox(head_out, x, y)
    IN  IF on_out THEN "out" ELSE IF on_in THEN "in" ELSE "none"

check_mouse_collision(x, y) ==
    LET on_in == is_click_on_bbox(head_in, x, y)
        on_out == is_click_on_bbox(head_out, x, y)
    IN  IF on_out THEN (IF on_in THEN "both" ELSE "out")
        ELSE IF on_in THEN "in" ELSE "none"

onclick(x, y) ==
    /\ Observe([Ev("onclick") EXCEPT !.head = selected_head, !.x = x, !.y = y])
    /\ selected_head' = check_mouse_collision(I(x), I(y))
    /\ UNCHANGED <<value_min, value_max, value_in, value_out,
                   user_moved_sliders_since_last_check, head_in, head_out,
                   entry_in_var, entry_out_var, value_display, inverse_display,
                   watch>>

\* ------------------------------------------------------ pointer with button
\* line 228 left out
SelectedAlways(head) == TRUE

\* line 228: None is false, a head or True is true
Selected(head) == head # "none"

\* line 229
ClampX(x) == Min2(slider_x_end, Max2(slider_x_start, I(x)))

clicked_move(x) ==
    LET cx0 == ClampX(x)
        e == [Ev("clicked_move") EXCEPT !.head = selected_head, !.x = x]
        raise == /\ Observe([e EXCEPT !.err = "ZeroDivisionError"])
                 /\ UNCHANGED prog
    IN  /\ UNCHANGED watch
        /\ CASE ~Selected(selected_head) ->
                  /\ Observe(e)
                  /\ UNCHANGED prog
             [] selected_head = "in" ->
                  IF ZeroDiv(value_min, value_max) THEN raise
                  ELSE LET pos_out == value_to_pos(value_min, value_max, value_out)
                           cx == Min2(pos_out, cx0)
                           bar_value == pos_to_value(value_min, value_max, cx)
                       IN  /\ value_in' = bar_value
                           /\ entry_in_var' = Format(value_display, bar_value)
                           /\ head_in' = cx
                           /\ user_moved_sliders_since_last_check' = TRUE
                           /\ Observe([e EXCEPT !.accepted = TRUE,
                                  !.note = IF cx0 >= pos_out THEN "beyond" ELSE "free"])
                           /\ UNCHANGED <<value_min, value_max, value_out,
                                          selected_head, head_out, entry_out_var,
                                          value_display, inverse_display>>
             [] selected_head = "out" ->
                  IF ZeroDiv(value_min, value_max) THEN raise
                  ELSE LET pos_in == value_to_pos(value_min, value_max, value_in)
                           cx == Max2(pos_in, cx0)
                           bar_value == pos_to_value(value_min, value_max, cx)
                       IN  /\ value_out' = bar_value
                           /\ entry_out_var' = Format(value_display, bar_value)
                           /\ head_out' = cx
                           /\ user_moved_sliders_since_last_check' = TRUE
                           /\ Observe([e EXCEPT !.accepted = TRUE,
                                  !.note = IF cx0 <= pos_in THEN "beyond" ELSE "free"])
                           /\ UNCHANGED <<value_min, value_max, value_in,
                                          selected_head, head_in, entry_in_var,
                                          value_display, inverse_display>>
             [] OTHER ->
                  IF ZeroDiv(value_min, value_max) THEN raise
                  ELSE LET pos_out == value_to_pos(value_min, value_max, value_out)
                           pick == IF cx0 > pos_out THEN "out" ELSE "in"
                       IN  /\ selected_head' = pick
                           /\ head_in' = IF pick = "in" THEN cx0 ELSE head_in
                           /\ head_out' = IF pick = "out" THEN cx0 ELSE head_out
                           /\ user_moved_sliders_since_last_check' = TRUE
                           /\ Observe([e EXCEPT !.accepted = TRUE, !.note = "resolve"])
                           /\ UNCHANGED <<value_min, value_max, value_in, value_out,
                                          entry_in_var, entry_out_var,
                                          value_display, inverse_display>>

\* ------------------------------------------------------------ the entries
\* what the user types: a number inside every domain, a number above every
\* domain, a text that is no number
TypedTexts ==
    IF watch = "user"
    THEN {Txt("dec2", 0), Txt("dec2", 100 * MaxTyped), Txt("junk", 0)}
    ELSE {Txt("dec2", 100 * MaxTyped)}

\* the events of an entry that run its handler (lines 311-313)
Keys == IF watch = "edit" THEN {"FocusOut", "Return", "Escape"} ELSE {"Return"}

\* the user edits the text of an entry; no handler runs until the commit
type_text(field, t) ==
    /\ Observe([Ev("type_text") EXCEPT !.head = field])
    /\ IF field = "in"
       THEN entry_in_var' = t /\ UNCHANGED entry_out_var
       ELSE entry_out_var' = t /\ UNCHANGED entry_in_var
    /\ UNCHANGED <<value_min, value_max, value_in, value_out,
                   user_moved_sliders_since_last_check, selected_head,
                   head_in, head_out, value_display, inverse_display, watch>>

\* line 289 without the upper bound
ClampProposedLower(proposed, vmin, vmax) == Max2(vmin, proposed)

\* line 289
ClampProposed(proposed, vmin, vmax) == Min2(Max2(vmin, proposed), vmax)

\* line 292 without the parity
CrossesIgnoringParity(this_value, other, parity) == this_value > other

\* line 292
Crosses(this_value, other, parity) == this_value * parity > other * parity

\* builder(...).f, bound to <FocusOut>, <Return> and <Escape> of an entry;
\* parity is 1 for the 'in' entry and -1 for the 'out' entry, key the event
entry_f(parity, key) ==
    LET this_var == IF parity = 1 THEN entry_in_var ELSE entry_out_var
        this_value == IF parity = 1 THEN value_in ELSE value_out
        other == IF parity = 1 THEN value_out ELSE value_in
        e == [Ev("entry_f") EXCEPT !.head = IF parity = 1 THEN "in" ELSE "out",
                                   !.key = key]
        r == Parse(inverse_display, this_var)
    IN  /\ UNCHANGED watch
        /\ IF inverse_display = "None"
           THEN /\ Observe([e EXCEPT !.note = "disabled"])
                /\ UNCHANGED prog
           ELSE IF ~r.ok
           THEN /\ Observe([e EXCEPT !.note = "unparsed", !.err = r.err])
                /\ UNCHANGED prog
           ELSE IF r.v = this_value
           THEN /\ Observe([e EXCEPT !.note = "same"])
                /\ UNCHANGED prog
           ELSE LET new_value == ClampProposed(r.v, value_min, value_max)
                    push == Crosses(new_value, other, parity)
                    new_other == IF push THEN new_value ELSE other
                    this_text == Format(value_display, new_value)
                    other_text == IF push THEN Format(value_display, new_other)
                                  ELSE IF parity = 1 THEN entry_out_var
                                  ELSE entry_in_var
                    this_pos == value_to_pos(value_min, value_max, new_value)
                    other_pos == value_to_pos(value_min, value_max, new_other)
                    f == [e EXCEPT !.note = IF push THEN "push" ELSE "free"]
                IN  /\ user_moved_sliders_since_last_check' = TRUE
                    /\ entry_in_var' = IF parity = 1 THEN this_text ELSE other_text
                    /\ entry_out_var' = IF parity = 1 THEN other_text ELSE this_text
                    /\ UNCHANGED <<value_min, value_max, selected_head,
                                   value_display, inverse_display>>
                    /\ IF ZeroDiv(value_min, value_max)
                       THEN /\ Observe([f EXCEPT !.err = "ZeroDivisionError"])
                            /\ UNCHANGED <<value_in, value_out, head_in, head_out>>
                       ELSE /\ Observe([f EXCEPT !.accepted = TRUE])
                            /\ value_in' = IF parity = 1 THEN new_value ELSE new_other
                            /\ value_out' = IF parity = 1 THEN new_other ELSE new_value
                            /\ head_in' = IF parity = 1 THEN this_pos
                                          ELSE IF push THEN other_pos ELSE head_in
                            /\ head_out' = IF parity = 1
                                           THEN (IF push THEN other_pos ELSE head_out)
                                           ELSE this_pos

\* ------------------------------------------------------------------ inputs
\* the (format, parse) pairs the host passes to change_display
Codecs ==
    CASE watch = "reconfig" ->
             {<<"dec2", "float">>, <<"q", "float">>, <<"q", "zero">>, <<"q", "None">>}
      [] watch = "edit" -> {<<"dec2", "float">>, <<"ts", "ts">>}
      [] OTHER -> {<<"dec2", "float">>}

\* pointer positions: left of the bar, and two neighbouring pixels on it
PointerXs == IF watch \in {"user", "pointer"} THEN {5, 21, 22} ELSE {5, 22}
PointerYs == {Height \div 2, Height \div 2 + HEAD_RADIUS}

Next ==
    \/ \E vmin, vmax \in {I(n) : n \in DomainValues}, reset, force \in BOOLEAN :
           /\ vmin <= vmax \/ watch = "misconfig"
           /\ change_min_max(vmin, vmax, reset, force)
    \/ \E c \in Codecs : change_display(c[1], c[2])
    \/ have_sliders_moved
    \/ \E x \in PointerXs, y \in PointerYs : onclick(x, y)
    \/ \E x \in PointerXs : clicked_move(x)
    \/ \E field \in {"in", "out"}, t \in TypedTexts : type_text(field, t)
    \/ \E parity \in {1, -1}, key \in Keys : entry_f(parity, key)

\* the handlers of the user are observed
Init == Constructed /\ watch = "user"

Spec == Init /\ [][Next]_vars

\* the handlers of the host are observed
InitReconfig == Constructed /\ watch = "reconfig"

SpecReconfig == InitReconfig /\ [][Next]_vars

\* the handlers of the pointer are observed
InitPointer == Constructed /\ watch = "pointer"

SpecPointer == InitPointer /\ [][Next]_vars

\* the handler of the entries is observed, with the event that ran it
InitEdit == Constructed /\ watch = "edit"

SpecEdit == InitEdit /\ [][Next]_vars

\* the host also calls change_min_max with max < min
InitMisconfig == Constructed /\ watch = "misconfig"

SpecMisconfig == InitMisconfig /\ [][Next]_vars

TypeOK ==
    /\ selected_head \in {"none", "in", "out", "both"}
    /\ user_moved_sliders_since_last_check \in BOOLEAN
    /\ value_display \in {"dec2", "ts", "q"}
    /\ inverse_display \in {"float", "ts", "zero", "None"}
    /\ ev.err \in {"none", "ZeroDivisionError", "ValueError", "IndexError"}

\* ================================================================ claims

\* C1: in every reachable state min <= valueIn <= valueOut <= max holds for
\* the current domain.
C1_Ordering ==
    /\ value_min <= value_in
    /\ value_in <= value_out
    /\ value_out <= value_max

moved == user_moved_sliders_since_last_check

\* clamp(v, lo, hi) as the claims use it
ClaimClamp(v, lo, hi) == IF v < lo THEN lo ELSE IF v > hi THEN hi ELSE v

\* C2: have_sliders_moved returns the flag and resets it; a drag or an
\* accepted edit sets the flag, and nothing but a drag or an accepted edit
\* turns it from false to true, so a poll returns true only after one.
C2_PollFlag ==
    [][/\ (ev'.op = "have_sliders_moved" => (ev'.ret = moved /\ ~moved'))
       /\ (ev'.accepted => moved')
       /\ ((~moved /\ moved') => ev'.accepted)]_vars

\* C3: no change_min_max or change_display call turns the flag from false to
\* true, and a change_min_max call that takes effect leaves it false.
C3_ReconfigNeverSets ==
    [][(ev'.op \in {"change_min_max", "change_display"}) =>
          /\ (moved' => moved)
          /\ ((/\ ev'.op = "change_min_max"
               /\ (ev'.vmin # value_min \/ ev'.vmax # value_max \/ ev'.force))
              => ~moved')]_vars

\* a forced change_min_max ran while the flag was set, and cleared it
C3_Witness ==
    /\ ev.op = "change_min_max"
    /\ ev.force
    /\ ev.was
    /\ ~moved

\* C4: a change_min_max call that takes effect sets valueIn = min and
\* valueOut = max when reset is true, and clamps both old values into
\* [min, max] when reset is false.
C4_SetDomainValues ==
    [][(/\ ev'.op = "change_min_max"
        /\ (ev'.vmin # value_min \/ ev'.vmax # value_max \/ ev'.force)) =>
          IF ev'.reset
          THEN value_in' = ev'.vmin /\ value_out' = ev'.vmax
          ELSE /\ value_in' = ClaimClamp(value_in, ev'.vmin, ev'.vmax)
               /\ value_out' = ClaimClamp(value_out, ev'.vmin, ev'.vmax)]_vars

\* reset = false with both old values above the new max: both end at max
C4_Witness ==
    /\ ev.op = "change_min_max"
    /\ ~ev.reset
    /\ ev.note = "above"
    /\ value_max = ev.vmax
    /\ value_in = ev.vmax
    /\ value_out = ev.vmax

\* C5: change_min_max with the current min and max and force not set changes
\* nothing: values, flag, selection, head positions, texts and editability.
C5_SameDomainNoOp ==
    [][(/\ ev'.op = "change_min_max"
        /\ ev'.vmin = value_min
        /\ ev'.vmax = value_max
        /\ ~ev'.force) => UNCHANGED prog]_vars

\* the call asked for a reset, and neither the values nor the flag were reset
C5_Witness ==
    /\ ev.op = "change_min_max"
    /\ ev.vmin = value_min
    /\ ev.vmax = value_max
    /\ ev.reset
    /\ ~ev.force
    /\ moved
    /\ value_in # value_min

\* parse is given and parse(format(min)) = min and parse(format(max)) = max
GatePasses(fmt, prs) ==
    /\ prs # "None"
    /\ LET a == Parse(prs, Format(fmt, value_min))
           b == Parse(prs, Format(fmt, value_max))
       IN  a.ok /\ a.v = value_min /\ b.ok /\ b.v = value_max

\* C6: change_display completes without error, and afterwards commits are
\* enabled if and only if parse is given and round-trips min and max.
C6_Editability ==
    (ev.op = "change_display") =>
        /\ ev.err = "none"
        /\ (inverse_display # "None") <=> GatePasses(ev.fmt, ev.prs)

\* C7: an accepted commit that would cross the other head leaves both heads
\* at the committed, clamped value; one that does not cross leaves the other
\* head's value unchanged.
C7_PushPolicy ==
    [][(ev'.op = "entry_f" /\ ev'.accepted) =>
          LET text == IF ev'.head = "in" THEN entry_in_var ELSE entry_out_var
              committed == ClaimClamp(Parse(inverse_display, text).v,
                                      value_min, value_max)
          IN  IF ev'.head = "in"
              THEN /\ value_in' = committed
                   /\ value_out' = IF committed > value_out THEN committed
                                   ELSE value_out
              ELSE /\ value_out' = committed
                   /\ value_in' = IF committed < value_in THEN committed
                                  ELSE value_in]_vars

\* the 'out' entry was committed below valueIn, and valueIn followed it
C7_Witness ==
    /\ ev.op = "entry_f"
    /\ ev.accepted
    /\ ev.head = "out"
    /\ ev.note = "push"
    /\ value_in = value_out
    /\ value_out < value_max

\* C8: a drag of 'in' to or beyond the position of 'out' leaves valueIn equal
\* to valueOut, valueOut unchanged and 'in' selected; symmetrically for 'out'.
C8_DragClamp ==
    [][(ev'.op = "clicked_move" /\ ev'.note = "beyond") =>
          IF ev'.head = "in"
          THEN value_in' = value_out /\ value_out' = value_out
               /\ selected_head' = "in"
          ELSE value_out' = value_in /\ value_in' = value_in
               /\ selected_head' = "out"]_vars

\* C9: a commit whose text cannot be parsed raises nothing, changes neither
\* value nor the flag, and resets the text to format of the head's value.
C9_ParseFailure ==
    [][(ev'.op = "entry_f" /\ ev'.note = "unparsed") =>
          /\ ev'.err = "none"
          /\ UNCHANGED <<value_in, value_out, user_moved_sliders_since_last_check>>
          /\ IF ev'.head = "in"
             THEN entry_in_var' = Format(value_display, value_in)
             ELSE entry_out_var' = Format(value_display, value_out)]_vars

\* C10: with max = min no division by zero occurs: every drag and every
\* commit completes without error and leaves valueIn = valueOut = min.
C10_Degenerate ==
    [][(value_min = value_max /\ ev'.op \in {"clicked_move", "entry_f"}) =>
          /\ ev'.err = "none"
          /\ value_in' = value_min
          /\ value_out' = value_min]_vars

\* C11: a change_min_max call with max < min is rejected with an error and
\* leaves the domain, valueIn, valueOut and the flag as they were, so that
\* max < min holds in no reachable state.
C11_RejectsInverted ==
    [][(ev'.op = "change_min_max" /\ ev'.vmax < ev'.vmin) =>
          /\ ev'.err # "none"
          /\ UNCHANGED <<value_min, value_max, value_in, value_out,
                         user_moved_sliders_since_last_check>>
          /\ value_min' <= value_max']_vars

\* a text the user typed: a number above every domain
TypedAbove == Txt("dec2", 100 * MaxTyped)

\* the text of the entry of a head
TextOf(head) == IF head = "in" THEN entry_in_var ELSE entry_out_var

\* C12: <Escape> on an entry sets its text back to format of its head's
\* value and changes neither valueIn, valueOut nor the flag, whatever the
\* text was; stated for min < max and a number typed into the entry.
C12_CancelReverts ==
    [][(/\ ev'.op = "entry_f"
        /\ ev'.key = "Escape"
        /\ value_min < value_max
        /\ TextOf(ev'.head) = TypedAbove) =>
          /\ UNCHANGED <<value_in, value_out, user_moved_sliders_since_last_check>>
          /\ IF ev'.head = "in"
             THEN entry_in_var' = Format(value_display, value_in)
             ELSE entry_out_var' = Format(value_display, value_out)]_vars

\* the box of a head: its position +- HEAD_RADIUS on both axes
InBox(head_x, x, y) ==
    /\ head_x - I(HEAD_RADIUS) < I(x) /\ I(x) < head_x + I(HEAD_RADIUS)
    /\ 2 * slider_y - 2 * I(HEAD_RADIUS) < 2 * I(y)
    /\ 2 * I(y) < 2 * slider_y + 2 * I(HEAD_RADIUS)

\* C13: after a pointer move without the button, from any selection, the
\* selection is 'in' if only the box of 'in' holds the pointer, 'out' if only
\* that of 'out', both if both, none if neither; valueIn, valueOut and the
\* flag are unchanged.
C13_HoverHitTest ==
    [][(ev'.op = "onclick") =>
          LET on_in == InBox(head_in, ev'.x, ev'.y)
              on_out == InBox(head_out, ev'.x, ev'.y)
          IN  /\ (selected_head' = "in") <=> (on_in /\ ~on_out)
              /\ (selected_head' = "out") <=> (on_out /\ ~on_in)
              /\ (selected_head' = "both") <=> (on_in /\ on_out)
              /\ (selected_head' = "none") <=> (~on_in /\ ~on_out)
              /\ UNCHANGED <<value_in, value_out,
                             user_moved_sliders_since_last_check>>]_vars

\* 'out' was the drag target, the pointer moved without the button to a
\* place inside both boxes, and the selection became both
C13_Witness ==
    /\ ev.op = "onclick"
    /\ ev.head = "out"
    /\ selected_head = "both"
    /\ head_in > slider_x_start
    /\ user_moved_sliders_since_last_check

\* C14: a button-held move with both heads selected selects 'out' if the
\* target, clamped to the bar, is strictly right of toPosition(valueOut), and
\* 'in' otherwise; after a button-held move the selection is never both.
C14_Resolve ==
    [][(ev'.op = "clicked_move") =>
          /\ selected_head' # "both"
          /\ (ev'.head = "both") =>
                 LET target == ClaimClamp(I(ev'.x), slider_x_start, slider_x_end)
                     pos_out == value_to_pos(value_min, value_max, value_out)
                 IN  selected_head' = IF target > pos_out THEN "out" ELSE "in"]_vars

\* C15: a button-held move with no head selected leaves valueIn, valueOut,
\* the flag and both head positions unchanged; with 'in' selected it leaves
\* valueOut unchanged, with 'out' selected valueIn; it never changes both
\* values.
C15_DragFrame ==
    [][(ev'.op = "clicked_move") =>
          /\ (ev'.head = "none") =>
                 UNCHANGED <<value_in, value_out, head_in, head_out,
                             user_moved_sliders_since_last_check>>
          /\ (ev'.head = "in") => value_out' = value_out
          /\ (ev'.head = "out") => value_in' = value_in
          /\ value_in' = value_in \/ value_out' = value_out]_vars

\* a button-held move with no head selected, after a drag had moved 'in' and
\* a poll had cleared the flag: 'in' and the flag stayed as they were
C15_Witness ==
    /\ ev.op = "clicked_move"
    /\ ev.head = "none"
    /\ selected_head = "none"
    /\ head_in > slider_x_start
    /\ value_in > value_min
    /\ ~user_moved_sliders_since_last_check

\* the value of a head
ValueOf(head) == IF head = "in" THEN value_in ELSE value_out

\* C16: a commit on an editable entry whose text parses to a value p that
\* differs from the value of its head sets that value to clamp(p, min, max),
\* also for p outside [min, max], and sets the flag.
C16_CommitClamps ==
    [][(/\ ev'.op = "entry_f"
        /\ inverse_display # "None"
        /\ Parse(inverse_display, TextOf(ev'.head)).ok
        /\ Parse(inverse_display, TextOf(ev'.head)).v # ValueOf(ev'.head)) =>
          LET p == Parse(inverse_display, TextOf(ev'.head)).v
              committed == ClaimClamp(p, value_min, value_max)
          IN  /\ IF ev'.head = "in" THEN value_in' = committed
                 ELSE value_out' = committed
              /\ user_moved_sliders_since_last_check']_vars

\* a number above max was committed to the 'in' entry while 'out' was below
\* max: 'in' is at max, and the flag is set
C16_Witness ==
    /\ ev.op = "entry_f"
    /\ ev.accepted
    /\ ev.head = "in"
    /\ ev.note = "push"
    /\ value_min < value_max
    /\ value_in = value_max
    /\ user_moved_sliders_since_last_check

\* C17: with min < max the 'in' head is at toPosition(valueIn) and the 'out'
\* head at toPosition(valueOut) after every operation.
C17_HeadFollowsValue ==
    (value_min < value_max) =>
        /\ head_in = value_to_pos(value_min, value_max, value_in)
        /\ head_out = value_to_pos(value_min, value_max, value_out)

\* C18: after a change_min_max call that takes effect, a change_display call,
\* a drag and an accepted commit, an entry that showed format of its head's
\* value before shows format of its head's value.
C18_TextFollowsValue ==
    [][(\/ /\ ev'.op = "change_min_max"
           /\ (ev'.vmin # value_min \/ ev'.vmax # value_max \/ ev'.force)
        \/ ev'.op = "change_display" /\ ev'.err = "none"
        \/ ev'.op \in {"clicked_move", "entry_f"} /\ ev'.accepted) =>
          /\ (entry_in_var = Format(value_display, value_in)) =>
                 entry_in_var' = Format(value_display', value_in')
          /\ (entry_out_var = Format(value_display, value_out)) =>
                 entry_out_var' = Format(value_display', value_out')]_vars

\* parse(format(lo)) = lo and parse(format(hi)) = hi
RoundTripsOn(fmt, prs, lo, hi) ==
    LET a == Parse(prs, Format(fmt, lo))
        b == Parse(prs, Format(fmt, hi))
    IN  a.ok /\ a.v = lo /\ b.ok /\ b.v = hi

\* C19: a commit of an entry whose text is format of its head's value, as
\* the widget displayed it, changes neither valueIn, valueOut nor the flag,
\* for every pair that is enabled and round-trips min and max.
C19_UntouchedCommit ==
    [][(/\ ev'.op = "entry_f"
        /\ inverse_display # "None"
        /\ RoundTripsOn(value_display, inverse_display, value_min, value_max)
        /\ TextOf(ev'.head) = Format(value_display, ValueOf(ev'.head))) =>
          UNCHANGED <<value_in, value_out,
                      user_moved_sliders_since_last_check>>]_vars

\* C20: commits are enabled only while parse(format(min)) = min and
\* parse(format(max)) = max hold for the current domain; stated for the step
\* of change_min_max: from a state where they hold, a change_min_max call
\* leads to a state where commits are disabled or they hold again.
C20_GateFollowsDomain ==
    [][(/\ ev'.op = "change_min_max"
        /\ inverse_display # "None"
        /\ RoundTripsOn(value_display, inverse_display, value_min, value_max)) =>
          \/ inverse_display' = "None"
          \/ RoundTripsOn(value_display', inverse_display',
                          value_min', value_max')]_vars

====
